---- MODULE Spec2Model ----
(***************************************************************************)
(* Model of the proof-of-work ledger in src/src/main.rs: Transaction,      *)
(* Block (calculate_hash, mine) and Blockchain (create_wallet,             *)
(* get_balance, add_transaction, mine_pending_transactions,                *)
(* is_chain_valid).                                                        *)
(*                                                                         *)
(* Strings are sequences of one-character strings, so that format! is a    *)
(* real concatenation.  SHA-256 is modelled as a collision-free digest:    *)
(* its first DIFFICULTY hex digits are a checksum of the hashed text and   *)
(* the remaining digits are the text itself.  Amounts are integers, on     *)
(* which f64 addition, subtraction and comparison are exact.  The random   *)
(* u64 of create_wallet is any of Addresses, so it may repeat.             *)
(***************************************************************************)
EXTENDS Integers, Sequences, FiniteSets, Bags, TLC

VARIABLES
  chain,                  \* Blockchain.chain
  pending_transactions,   \* Blockchain.pending_transactions
  wallets,                \* Blockchain.wallets
  current_mining_reward,  \* Blockchain.current_mining_reward
  clock,                  \* the value Utc::now().timestamp() returns next
  last,                   \* the last call: operation, arguments, return value
  admitted,               \* the transactions add_transaction has accepted, in order
  search                  \* the block inside Block::mine and the position in its loop

vars == <<chain, pending_transactions, wallets, current_mining_reward, clock,
          last, admitted, search>>

\* the fields of the Blockchain
ledger == <<chain, pending_transactions, wallets, current_mining_reward>>

(* ---------------- program constants ---------------- *)
DIFFICULTY == 4
MINING_REWARD == 100
HALVING_INTERVAL == 10

(* ---------------- bounds of the model ---------------- *)
\* the first DIFFICULTY hex digits of a digest range over 0 .. LeadRange-1
LeadRange == 3
\* number of accepted transactions plus mined blocks in one run of Spec
MaxWork == 4
\* longest chain explored by SpecLong
MaxChainLong == 22
\* SpecLong accepts transactions only while the chain is this short
LongTxWindow == 2

(* ---------------- inputs ---------------- *)
SYSTEM_ACCOUNT == "0"
\* values of format!("0x{:x}", u64) that create_wallet can return
Addresses == {"0xa", "0xb"}
\* account strings a caller can put in a Transaction
Accounts == Addresses \cup {SYSTEM_ACCOUNT}
\* values of Utc::now().timestamp() when the ledger is created; the clock
\* advances by one second per mined block
Timestamps == {8, 12}

(* ---------------- strings ---------------- *)
Chars(s) ==
  CASE s = "0"   -> <<"0">>
    [] s = "0xa" -> <<"0", "x", "a">>
    [] s = "0xb" -> <<"0", "x", "b">>

Digits == <<"0", "1", "2", "3", "4", "5", "6", "7", "8", "9",
            "a", "b", "c", "d", "e", "f">>

DecDigit(d) == Digits[d + 1]

HexDigit(d) == Digits[d + 1]

RECURSIVE NatToString(_)
\* Display of an unsigned integer: decimal, no padding
NatToString(n) ==
  IF n < 10 THEN <<DecDigit(n)>>
  ELSE Append(NatToString(n \div 10), DecDigit(n % 10))

\* Display of a signed integer
IntToString(n) == IF n < 0 THEN <<"-">> \o NatToString(-n) ELSE NatToString(n)

\* Debug of an f64 with an integral value: "100.0", "-10.0"
F64Debug(x) == IntToString(x) \o <<".", "0">>

\* Debug of a String: quoted
StrDebug(s) == <<"\"">> \o Chars(s) \o <<"\"">>

\* derive(Debug) of Transaction
TxDebug(tx) ==
  <<"T", "{", "f", ":">> \o StrDebug(tx.from) \o <<",", "t", ":">>
    \o StrDebug(tx.to) \o <<",", "a", ":">> \o F64Debug(tx.amount) \o <<"}">>

RECURSIVE TxsDebugFrom(_, _)
TxsDebugFrom(txs, i) ==
  IF i > Len(txs) THEN <<>>
  ELSE (IF i > 1 THEN <<",", " ">> ELSE <<>>) \o TxDebug(txs[i])
         \o TxsDebugFrom(txs, i + 1)

\* Debug of Vec<Transaction>
TxsDebug(txs) == <<"[">> \o TxsDebugFrom(txs, 1) \o <<"]">>

starts_with(s, prefix) ==
  /\ Len(s) >= Len(prefix)
  /\ SubSeq(s, 1, Len(prefix)) = prefix

RECURSIVE repeat(_, _)
\* str::repeat
repeat(s, n) == IF n = 0 THEN <<>> ELSE s \o repeat(s, n - 1)

(* ---------------- SHA-256 ---------------- *)
\* the value each character contributes to the leading digits of a digest
CharCodes ==
  [c \in {Digits[i] : i \in 1..16} |-> (CHOOSE i \in 1..16 : Digits[i] = c) - 1]
    @@ ("x" :> 33) @@ ("T" :> 29) @@ ("t" :> 27) @@ ("{" :> 41) @@ ("}" :> 43)
    @@ ("[" :> 37) @@ ("]" :> 39) @@ (":" :> 23) @@ ("," :> 19) @@ (" " :> 17)
    @@ ("." :> 13) @@ ("-" :> 31) @@ ("\"" :> 7)

CharCode(c) == CharCodes[c]

\* the sum of the character values of s, each plus one (the size of the bag
\* that holds character i that many times)
CheckSum(s) == BagCardinality([i \in 1..Len(s) |-> CharCode(s[i]) + 1])

RECURSIVE HexPadded(_, _)
\* the w-digit lower-case hex rendering of n
HexPadded(n, w) ==
  IF w = 0 THEN <<>> ELSE Append(HexPadded(n \div 16, w - 1), HexDigit(n % 16))

\* format!("{:x}", Sha256(data)): leading digits, then the rest of the digest
Sha256Hex(data) ==
  HexPadded(CheckSum(data) % LeadRange, DIFFICULTY) \o data

(* ---------------- Transaction ---------------- *)
\* Transaction::new
Transaction(from, to, amount) == [from |-> from, to |-> to, amount |-> amount]

\* the transactions a caller submits: a sentinel sender, plain transfers, a
\* self-transfer and a negative amount
AllTransactions ==
  { Transaction("0", "0xa", 10), Transaction("0xa", "0xb", 10),
    Transaction("0xa", "0xb", 100), Transaction("0xa", "0xa", 10),
    Transaction("0xb", "0xa", -10) }

(* ---------------- Block ---------------- *)
\* Block::calculate_hash
calculate_hash(block) ==
  Sha256Hex(NatToString(block.index) \o IntToString(block.timestamp)
              \o TxsDebug(block.transactions) \o block.previous_hash
              \o NatToString(block.nonce))

\* "0".repeat(DIFFICULTY)
Target == repeat(<<"0">>, DIFFICULTY)

\* mutant of MineStep: the hash is taken before the nonce is incremented
MineStepStale(block) ==
  [block EXCEPT !.nonce = block.nonce + 1, !.hash = calculate_hash(block)]

\* mutant of MineStep: the search skips every other nonce
MineStepSkipping(block) ==
  LET bumped == [block EXCEPT !.nonce = block.nonce + 2]
  IN  [bumped EXCEPT !.hash = calculate_hash(bumped)]

\* one iteration of the loop of Block::mine: nonce += 1, then rehash
\* (the u32 nonce stays far below 2^32 here: the search ends within
\* LeadRange iterations)
MineStep(block) ==
  LET bumped == [block EXCEPT !.nonce = block.nonce + 1]
  IN  [bumped EXCEPT !.hash = calculate_hash(bumped)]

RECURSIVE mine(_)
\* Block::mine
mine(block) ==
  IF starts_with(block.hash, Target) THEN block ELSE mine(MineStep(block))

\* mutant of BlockNew: the block is returned without block.mine()
BlockNewUnmined(index, transactions, previous_hash, now) ==
  [index |-> index, timestamp |-> now, transactions |-> transactions,
   previous_hash |-> previous_hash, hash |-> <<>>, nonce |-> 0]

\* Block::new; now is the value of Utc::now().timestamp()
BlockNew(index, transactions, previous_hash, now) ==
  mine([index |-> index, timestamp |-> now, transactions |-> transactions,
        previous_hash |-> previous_hash, hash |-> <<>>, nonce |-> 0])

(* ---------------- Blockchain ---------------- *)
\* Blockchain::get_balance
get_balance(w, address) == IF address \in DOMAIN w THEN w[address] ELSE 0

\* HashMap::insert
Insert(w, address, value) == (address :> value) @@ w

\* mutant of Rejected: a sender may not spend its whole balance
RejectedAtEqual(w, tx) ==
  tx.from # SYSTEM_ACCOUNT /\ get_balance(w, tx.from) <= tx.amount

\* the early return of Blockchain::add_transaction
Rejected(w, tx) ==
  tx.from # SYSTEM_ACCOUNT /\ get_balance(w, tx.from) < tx.amount

\* mutant of ApplyTransaction: the sender is not debited
ApplyTransactionNoDebit(w, tx) ==
  Insert(w, tx.to, get_balance(w, tx.to) + tx.amount)

\* mutant of ApplyTransaction: mining checks the sender's balance again and
\* skips a transaction the sender can no longer pay
ApplyTransactionRevalidating(w, tx) ==
  IF Rejected(w, tx) THEN w
  ELSE LET debited == IF tx.from # SYSTEM_ACCOUNT
                      THEN Insert(w, tx.from, get_balance(w, tx.from) - tx.amount)
                      ELSE w
       IN  Insert(debited, tx.to, get_balance(debited, tx.to) + tx.amount)

\* one iteration of the for loop of mine_pending_transactions
ApplyTransaction(w, tx) ==
  LET debited == IF tx.from # SYSTEM_ACCOUNT
                 THEN Insert(w, tx.from, get_balance(w, tx.from) - tx.amount)
                 ELSE w
  IN  Insert(debited, tx.to, get_balance(debited, tx.to) + tx.amount)

RECURSIVE ApplyAll(_, _, _)
\* the for loop of mine_pending_transactions
ApplyAll(w, txs, i) ==
  IF i > Len(txs) THEN w ELSE ApplyAll(ApplyTransaction(w, txs[i]), txs, i + 1)

\* mutant of TransactionsToMine: the coinbase transaction comes first
TransactionsToMineCoinbaseFirst(pending, miner_address, reward) ==
  <<Transaction(SYSTEM_ACCOUNT, miner_address, reward)>> \o pending

\* transactions_to_mine after the push of reward_tx
TransactionsToMine(pending, miner_address, reward) ==
  Append(pending, Transaction(SYSTEM_ACCOUNT, miner_address, reward))

\* mutant of NewBlock: the new block links to the first block, not the last
NewBlockLinkedToFirst(c, pending, miner_address, reward, now) ==
  BlockNew(Len(c), Append(pending, Transaction(SYSTEM_ACCOUNT, miner_address, reward)),
           c[1].hash, now)

\* the arguments mine_pending_transactions gives Block::new
NewBlock(c, pending, miner_address, reward, now) ==
  BlockNew(Len(c), TransactionsToMine(pending, miner_address, reward),
           c[Len(c)].hash, now)

\* mutant of CreditMiner: the reward replaces the miner's balance
CreditMinerOverwrite(w, miner_address, reward) ==
  Insert(w, miner_address, reward)

\* the credit of the miner
CreditMiner(w, miner_address, reward) ==
  Insert(w, miner_address, get_balance(w, miner_address) + reward)

\* mutant of NextReward: the reward is never halved
NextRewardConstant(len, reward) == reward

\* mutant of NextReward: the length is tested as it was before the push
NextRewardBeforePush(len, reward) ==
  IF (len - 1) % HALVING_INTERVAL = 0 THEN reward \div 2 ELSE reward

\* the halving at the end of mine_pending_transactions; len is chain.len()
\* after the push (f64 halving is exact on the rewards the bounds reach)
NextReward(len, reward) ==
  IF len % HALVING_INTERVAL = 0 THEN reward \div 2 ELSE reward

\* mutant of Cleared: the queue is kept
NotCleared(pending) == pending

\* mutant of Cleared: only the first transaction leaves the queue
ClearedFirst(pending) == IF pending = <<>> THEN pending ELSE Tail(pending)

\* pending_transactions.clear()
Cleared(pending) == <<>>

NoTx == Transaction("", "", 0)

\* a call of a Blockchain method: its name, its transaction or address
\* argument, and the bool or f64 it returns
Call(op, tx, addr, ret, val) ==
  [op |-> op, tx |-> tx, addr |-> addr, ret |-> ret, val |-> val]

\* no Block::mine is running
Idle == [pc |-> "idle", block |-> <<>>]

\* mutant of GenesisBlock: the genesis block names no previous hash
GenesisBlockUnlinked(now) == BlockNew(0, <<>>, <<>>, now)

\* Blockchain::create_genesis_block
GenesisBlock(now) == BlockNew(0, <<>>, Chars("0"), now)

\* mutant of Init: Blockchain::new does not push the genesis block
InitNoGenesis ==
  /\ chain = <<>>
  /\ clock \in Timestamps
  /\ pending_transactions = <<>>
  /\ wallets = <<>>
  /\ current_mining_reward = MINING_REWARD
  /\ last = Call("new", NoTx, "", TRUE, 0)
  /\ admitted = <<>>
  /\ search = Idle

\* Blockchain::new
Init ==
  /\ \E now \in Timestamps : chain = <<GenesisBlock(now)>> /\ clock = now + 1
  /\ pending_transactions = <<>>
  /\ wallets = <<>>
  /\ current_mining_reward = MINING_REWARD
  /\ last = Call("new", NoTx, "", TRUE, 0)
  /\ admitted = <<>>
  /\ search = Idle

\* Blockchain::create_wallet; address is the formatted random u64
create_wallet(address) ==
  /\ wallets' = Insert(wallets, address, 0)
  /\ last' = Call("create_wallet", NoTx, address, TRUE, 0)
  /\ UNCHANGED <<chain, pending_transactions, current_mining_reward, clock,
                 admitted, search>>

\* Blockchain::add_transaction
add_transaction(tx) ==
  IF Rejected(wallets, tx)
  THEN /\ last' = Call("add_transaction", tx, "", FALSE, 0)
       /\ UNCHANGED <<ledger, clock, admitted, search>>
  ELSE /\ pending_transactions' = Append(pending_transactions, tx)
       /\ admitted' = Append(admitted, tx)
       /\ last' = Call("add_transaction", tx, "", TRUE, 0)
       /\ UNCHANGED <<chain, wallets, current_mining_reward, clock, search>>

\* Blockchain::mine_pending_transactions; chain.last().unwrap() panics on an
\* empty chain, after the loop over the queue has changed the balances
mine_pending_transactions(miner_address) ==
  IF chain = <<>>
  THEN /\ wallets' = ApplyAll(wallets, pending_transactions, 1)
       /\ last' = Call("panic", NoTx, miner_address, FALSE, 0)
       /\ UNCHANGED <<chain, pending_transactions, current_mining_reward, clock,
                      admitted, search>>
  ELSE /\ chain' = Append(chain, NewBlock(chain, pending_transactions, miner_address,
                                          current_mining_reward, clock))
       /\ clock' = clock + 1
       /\ wallets' = CreditMiner(ApplyAll(wallets, pending_transactions, 1),
                                 miner_address, current_mining_reward)
       /\ pending_transactions' = Cleared(pending_transactions)
       /\ current_mining_reward' = NextReward(Len(chain'), current_mining_reward)
       /\ last' = Call("mine_pending_transactions", NoTx, miner_address, TRUE, 0)
       /\ UNCHANGED <<admitted, search>>

\* a call of Blockchain::get_balance (&self)
get_balance_call(address) ==
  /\ last' = Call("get_balance", NoTx, address, TRUE, get_balance(wallets, address))
  /\ UNCHANGED <<ledger, clock, admitted, search>>

RECURSIVE valid_from(_, _)
\* the loop of is_chain_valid from position i (1-based: block index i - 1)
valid_from(c, i) ==
  IF i > Len(c) THEN TRUE
  ELSE IF c[i].hash # calculate_hash(c[i]) THEN FALSE
  ELSE IF c[i].previous_hash # c[i - 1].hash THEN FALSE
  ELSE IF ~starts_with(c[i].hash, Target) THEN FALSE
  ELSE valid_from(c, i + 1)

\* Blockchain::is_chain_valid: for i in 1..chain.len()
is_chain_valid(c) == valid_from(c, 2)

\* a call of Blockchain::is_chain_valid (&self)
is_chain_valid_call ==
  /\ last' = Call("is_chain_valid", NoTx, "", is_chain_valid(chain), 0)
  /\ UNCHANGED <<ledger, clock, admitted, search>>

(* ---------------- specifications ---------------- *)
RECURSIVE CountTxs(_, _)
CountTxs(c, i) ==
  IF i > Len(c) THEN 0 ELSE Len(c[i].transactions) + CountTxs(c, i + 1)

\* transactions accepted by add_transaction so far
Accepted == CountTxs(chain, 1) - (Len(chain) - 1) + Len(pending_transactions)

\* a panic ends the process
Alive == last.op # "panic"

CreateWallet == Alive /\ \E address \in Addresses : create_wallet(address)


\* accepted transactions plus mined blocks so far
Work == Accepted + Len(chain) - 1

AddTransaction ==
  /\ Alive
  /\ Work < MaxWork
  /\ \E tx \in AllTransactions : add_transaction(tx)

MinePending ==
  /\ Alive
  /\ Work < MaxWork
  /\ \E miner \in Addresses : mine_pending_transactions(miner)

\* the two read-only calls, made on every ledger the bound lets change further
GetBalance ==
  /\ Alive
  /\ Work < MaxWork
  /\ \E address \in Addresses : get_balance_call(address)

IsChainValid ==
  /\ Alive
  /\ Work < MaxWork
  /\ is_chain_valid_call

Next ==
  CreateWallet \/ AddTransaction \/ MinePending \/ GetBalance \/ IsChainValid

Spec == Init /\ [][Next]_vars

\* The same ledger driven through many blocks: one miner, and transactions
\* only while the chain is short.
LongMiner == "0xa"

AddTransactionLong ==
  /\ Alive
  /\ Len(chain) <= LongTxWindow
  /\ Accepted < 1
  /\ \E tx \in AllTransactions : add_transaction(tx)

MinePendingLong ==
  /\ Alive
  /\ Len(chain) < MaxChainLong
  /\ mine_pending_transactions(LongMiner)

NextLong == CreateWallet \/ AddTransactionLong \/ MinePendingLong

SpecLong == Init /\ [][NextLong]_vars

(* ---------------- properties ---------------- *)
LastBlock(c) == c[Len(c)]

Coinbase(block) == block.transactions[Len(block.transactions)]

Mined == last.op = "mine_pending_transactions"

\* C1: the chain is never empty, every block's index is its position in the
\* chain, and every block after the genesis block names the hash of the
\* block before it.
ChainStructure ==
  /\ Len(chain) >= 1
  /\ \A i \in 1..Len(chain) : chain[i].index = i - 1
  /\ \A i \in 2..Len(chain) : chain[i].previous_hash = chain[i - 1].hash

\* two blocks have been mined on top of the genesis block
ChainStructureWitness == Mined /\ Len(chain) >= 3

\* C2: every block of the chain, the genesis block included, stores the
\* hash of its own fields, and that hash starts with DIFFICULTY zeros.
BlockSelfConsistent ==
  \A i \in 1..Len(chain) :
    /\ chain[i].hash = calculate_hash(chain[i])
    /\ starts_with(chain[i].hash, Target)

\* a mined block whose search needed more than one attempt
BlockSelfConsistentWitness ==
  Mined /\ LastBlock(chain).nonce >= 2 /\ Len(LastBlock(chain).transactions) >= 2

(* ---- replaying the chain ---- *)
RECURSIVE SumTo(_, _, _)
\* the amounts of txs[i ..] received by account a
SumTo(txs, a, i) ==
  IF i > Len(txs) THEN 0
  ELSE (IF txs[i].to = a THEN txs[i].amount ELSE 0) + SumTo(txs, a, i + 1)

RECURSIVE SumFrom(_, _, _)
\* the amounts of txs[i ..] sent by account a
SumFrom(txs, a, i) ==
  IF i > Len(txs) THEN 0
  ELSE (IF txs[i].from = a THEN txs[i].amount ELSE 0) + SumFrom(txs, a, i + 1)

RECURSIVE Replay(_, _, _)
\* credits minus debits of account a in the blocks c[i ..]; the coinbase
\* sentinel is never debited
Replay(c, a, i) ==
  IF i > Len(c) THEN 0
  ELSE SumTo(c[i].transactions, a, 1)
         - (IF a # SYSTEM_ACCOUNT THEN SumFrom(c[i].transactions, a, 1) ELSE 0)
         + Replay(c, a, i + 1)

RECURSIVE SumBalances(_, _)
\* the sum of the balances of the accounts in keys
SumBalances(w, keys) ==
  IF keys = {} THEN 0
  ELSE LET k == CHOOSE x \in keys : TRUE
       IN  w[k] + SumBalances(w, keys \ {k})

Total(w) == SumBalances(w, DOMAIN w)

\* C3: the balance of every account equals the replay of the chain: the
\* amounts it received minus the amounts it sent.
BalanceReplay ==
  \A a \in Accounts : get_balance(wallets, a) = Replay(chain, a, 1)

\* C4: add_transaction returns false exactly when the sender is not the
\* sentinel and its balance is below the amount, and then changes nothing;
\* otherwise it returns true and appends the transaction to pending,
\* leaving balances, chain and reward alone.
AdmissionRule ==
  [][last'.op = "add_transaction" =>
       LET tx == last'.tx
           short == tx.from # SYSTEM_ACCOUNT
                      /\ get_balance(wallets, tx.from) < tx.amount
       IN  /\ last'.ret = ~short
           /\ short => pending_transactions' = pending_transactions
           /\ ~short => pending_transactions' = Append(pending_transactions, tx)
           /\ UNCHANGED <<chain, wallets, current_mining_reward>>]_vars

\* a transaction with a known sender was refused while another one waits
AdmissionRuleWitness ==
  /\ last.op = "add_transaction" /\ ~last.ret
  /\ last.tx.from \in DOMAIN wallets
  /\ Len(pending_transactions) >= 1

\* C5: the block mine_pending_transactions appends has the old chain length
\* as index, the old last block's hash as previous_hash, and as transactions
\* the pending queue in order followed by one coinbase transaction to the
\* miner for the reward in force at the call.
MinedBlockContents ==
  [][last'.op = "mine_pending_transactions" =>
       LET block == LastBlock(chain')
       IN  /\ block.index = Len(chain)
           /\ block.previous_hash = LastBlock(chain).hash
           /\ block.transactions =
                Append(pending_transactions,
                       [from |-> SYSTEM_ACCOUNT, to |-> last'.addr,
                        amount |-> current_mining_reward])]_vars

\* a block was mined from a queue of two transactions
MinedBlockContentsWitness ==
  Mined /\ Len(LastBlock(chain).transactions) = 3

\* C6: mining makes the chain one block longer and empties the queue; no
\* operation changes or removes a block already in the chain.
MiningEffect ==
  [][/\ last'.op = "mine_pending_transactions" =>
          /\ Len(chain') = Len(chain) + 1
          /\ pending_transactions' = <<>>
     /\ Len(chain') >= Len(chain)
     /\ SubSeq(chain', 1, Len(chain)) = chain]_vars

\* the second mined block took a non-empty queue, the first an empty one
MiningEffectWitness ==
  /\ Mined /\ Len(chain) = 3 /\ pending_transactions = <<>>
  /\ Len(chain[2].transactions) = 1
  /\ Len(chain[3].transactions) >= 2

\* the amounts of the transactions of txs[i ..] sent by the coinbase sentinel
SentinelAmounts(txs, i) == SumFrom(txs, SYSTEM_ACCOUNT, i)

\* C7 as claimed: a mining call raises the sum of all balances by exactly
\* the coinbase amount.
ConservationAsClaimed ==
  [][last'.op = "mine_pending_transactions" =>
       Total(wallets') = Total(wallets) + current_mining_reward]_vars

\* C7 as amended: a mining call raises the sum of all balances by the
\* coinbase amount plus the amounts of the queued transactions whose sender
\* is the coinbase sentinel; every other queued transfer creates or destroys
\* no value.
Conservation ==
  [][last'.op = "mine_pending_transactions" =>
       Total(wallets') = Total(wallets) + current_mining_reward
                           + SentinelAmounts(pending_transactions, 1)]_vars

\* a block that holds a self-transfer and a transfer between two accounts
\* has been mined
ConservationWitness ==
  /\ Mined /\ Len(LastBlock(chain).transactions) = 3
  /\ \E i \in 1..2 : LET tx == LastBlock(chain).transactions[i]
                     IN  tx.from # SYSTEM_ACCOUNT /\ tx.from = tx.to
  /\ \E i \in 1..2 : LET tx == LastBlock(chain).transactions[i]
                     IN  tx.from # SYSTEM_ACCOUNT /\ tx.from # tx.to

\* C8: the block mined after the block with index 10 carries a coinbase of
\* 50, and the block mined after the block with index 20 a coinbase of 25.
HalvingSchedule ==
  /\ Len(chain) >= 12 => Coinbase(chain[12]).amount = 50
  /\ Len(chain) >= 22 => Coinbase(chain[22]).amount = 25

\* the block with index 21 has been mined
HalvingScheduleWitness == Mined /\ Len(chain) >= 22 /\ chain[22].index = 21

\* the hash the block would have with another nonce
HashWithNonce(block, n) == calculate_hash([block EXCEPT !.nonce = n])

IndexValues == 0..(Len(chain) + 1)
TimestampValues == 0..(clock + 1)
NonceValues == 0..(LeadRange + 1)
TransactionsValues == {<<>>} \cup { <<tx>> : tx \in AllTransactions }
HashValues ==
  {<<"0">>, Target, Target \o <<"1">>} \cup { chain[j].hash : j \in 1..Len(chain) }

\* C10: changing any one stored field of any block of the chain to another
\* value makes is_chain_valid return false.
CorruptionDetected ==
  \A i \in 1..Len(chain) :
    /\ \A v \in IndexValues \ {chain[i].index} :
         ~is_chain_valid([chain EXCEPT ![i].index = v])
    /\ \A v \in TimestampValues \ {chain[i].timestamp} :
         ~is_chain_valid([chain EXCEPT ![i].timestamp = v])
    /\ \A v \in TransactionsValues \ {chain[i].transactions} :
         ~is_chain_valid([chain EXCEPT ![i].transactions = v])
    /\ \A v \in HashValues \ {chain[i].previous_hash} :
         ~is_chain_valid([chain EXCEPT ![i].previous_hash = v])
    /\ \A v \in HashValues \ {chain[i].hash} :
         ~is_chain_valid([chain EXCEPT ![i].hash = v])
    /\ \A v \in NonceValues \ {chain[i].nonce} :
         ~is_chain_valid([chain EXCEPT ![i].nonce = v])

(* ---------------- the scenario of the console session ---------------- *)
\* the amount the scenario transfers
ScenarioAmount == 10

\* menu 1: the first wallet, A, is created on the fresh ledger
ScenarioCreate ==
  /\ wallets = <<>>
  /\ Len(chain) = 1
  /\ \E A \in Addresses : create_wallet(A)

\* menu 3 before any block is mined: A tries to pay B
ScenarioFirstAttempt ==
  /\ Len(chain) = 1
  /\ \E A \in DOMAIN wallets : \E B \in Accounts \ {A} :
       add_transaction(Transaction(A, B, ScenarioAmount))

\* menu 4: A mines the first block
ScenarioMineA ==
  /\ Len(chain) = 1
  /\ \E A \in DOMAIN wallets : mine_pending_transactions(A)

\* menu 3 again: A, now holding the reward, pays B
ScenarioSecondAttempt ==
  /\ Len(chain) = 2
  /\ pending_transactions = <<>>
  /\ \E B \in Accounts \ {Coinbase(chain[2]).to} :
       add_transaction(Transaction(Coinbase(chain[2]).to, B, ScenarioAmount))

\* menu 4: B mines the second block
ScenarioMineB ==
  /\ Len(chain) = 2
  /\ pending_transactions # <<>>
  /\ mine_pending_transactions(pending_transactions[1].to)

NextScenario ==
  \/ ScenarioCreate
  \/ ScenarioFirstAttempt
  \/ ScenarioMineA
  \/ ScenarioSecondAttempt
  \/ ScenarioMineB
  \/ GetBalance
  \/ IsChainValid

SpecScenario == Init /\ [][NextScenario]_vars

\* C11: create_wallet returns an identifier that was not in the balance
\* table before the call and is not the sentinel "0"; after the call that
\* identifier has balance zero, every balance that existed is unchanged, and
\* so are the chain, the pending queue and the reward.
WalletFreshness ==
  [][last'.op = "create_wallet" =>
       /\ last'.addr \notin DOMAIN wallets
       /\ last'.addr # SYSTEM_ACCOUNT
       /\ wallets'[last'.addr] = 0
       /\ \A a \in DOMAIN wallets : wallets'[a] = wallets[a]
       /\ UNCHANGED <<chain, pending_transactions, current_mining_reward>>]_vars

\* C12: on a fresh ledger, after wallet A is created its balance is 0 and its
\* payment of 10 to B is rejected; after A mines a block A holds 100 and the
\* same payment is accepted; after B mines the next block B holds 110 and A
\* holds 90.
ScenarioOutcome ==
  /\ Len(chain) = 1 =>
       /\ \A A \in DOMAIN wallets : wallets[A] = 0
       /\ last.op = "add_transaction" => ~last.ret
       /\ pending_transactions = <<>>
  /\ Len(chain) = 2 =>
       /\ get_balance(wallets, Coinbase(chain[2]).to) = MINING_REWARD
       /\ last.op = "add_transaction" =>
            /\ last.ret
            /\ last.tx.from = Coinbase(chain[2]).to
            /\ pending_transactions = <<last.tx>>
  /\ Len(chain) = 3 =>
       /\ get_balance(wallets, Coinbase(chain[3]).to)
            = MINING_REWARD + ScenarioAmount
       /\ get_balance(wallets, Coinbase(chain[2]).to)
            = MINING_REWARD - ScenarioAmount

\* B has mined the block that holds the payment of A
ScenarioOutcomeWitness ==
  /\ Mined
  /\ Len(chain) = 3
  /\ Len(chain[3].transactions) = 2
  /\ chain[3].transactions[1].from = Coinbase(chain[2]).to
  /\ chain[3].transactions[1].to = Coinbase(chain[3]).to

\* C13: the ledger Blockchain::new returns has exactly one block, with index
\* 0, no transactions, previous hash "0" and a hash that meets the
\* difficulty; its pending queue and balance table are empty and its reward
\* is the initial reward.
GenesisState ==
  last.op = "new" =>
    /\ Len(chain) = 1
    /\ chain[1].index = 0
    /\ chain[1].transactions = <<>>
    /\ chain[1].previous_hash = Chars("0")
    /\ chain[1].hash = calculate_hash(chain[1])
    /\ starts_with(chain[1].hash, Target)
    /\ pending_transactions = <<>>
    /\ DOMAIN wallets = {}
    /\ current_mining_reward = MINING_REWARD

\* the ledger just constructed
GenesisStateWitness ==
  /\ last.op = "new"
  /\ Len(chain) = 1
  /\ chain[1].nonce >= 1

(* ---------------- Block::mine, one iteration at a time ---------------- *)
\* the largest index of a block handed to Block::new
MaxMineIndex == 3

\* a previous_hash that is the hash of a mined block
SomeHash == Target \o <<"1", "2">>

\* the transaction lists handed to Block::new
MineTransactions == {<<>>} \cup {<<tx>> : tx \in AllTransactions}

\* mutant of Searching: the loop ends after its first iteration
SearchingOnce(block) == block.hash = <<>>

\* the condition of the while loop of Block::mine
Searching(block) == ~starts_with(block.hash, Target)

\* Block::new up to the call of block.mine()
BlockNewCall ==
  /\ search.pc \in {"idle", "done"}
  /\ \E index \in 0..MaxMineIndex, transactions \in MineTransactions,
        previous_hash \in {Chars("0"), SomeHash}, now \in Timestamps :
       search' = [pc |-> "loop",
                  block |-> [index |-> index, timestamp |-> now,
                             transactions |-> transactions,
                             previous_hash |-> previous_hash,
                             hash |-> <<>>, nonce |-> 0]]
  /\ UNCHANGED <<ledger, clock, last, admitted>>

\* one iteration of the while loop
MineIteration ==
  /\ search.pc = "loop"
  /\ Searching(search.block)
  /\ search' = [search EXCEPT !.block = MineStep(search.block)]
  /\ UNCHANGED <<ledger, clock, last, admitted>>

\* the loop condition fails and Block::mine returns
MineReturn ==
  /\ search.pc = "loop"
  /\ ~Searching(search.block)
  /\ search' = [search EXCEPT !.pc = "done"]
  /\ UNCHANGED <<ledger, clock, last, admitted>>

NextMine == BlockNewCall \/ MineIteration \/ MineReturn

\* the thread inside Block::mine keeps running
SpecMine ==
  Init /\ [][NextMine]_vars /\ WF_vars(MineIteration) /\ WF_vars(MineReturn)

\* the fields of a block the search leaves alone
FixedFields(block) ==
  <<block.index, block.timestamp, block.transactions, block.previous_hash>>

\* C14: two transactions of one sender can each pass the admission check
\* against the same balance, because admission changes no balance; mining
\* then puts the whole queue in one block and applies every transaction of
\* it without a second check, so that each balance changes by exactly the
\* credits minus the debits of the block, below zero if need be.
NoRevalidation ==
  [][/\ (last'.op = "add_transaction" /\ last'.ret) => wallets' = wallets
     /\ last'.op = "mine_pending_transactions" =>
          LET block == LastBlock(chain')
          IN  /\ SubSeq(block.transactions, 1, Len(pending_transactions))
                   = pending_transactions
              /\ \A a \in Accounts :
                   get_balance(wallets', a)
                     = get_balance(wallets, a) + Replay(<<block>>, a, 1)]_vars

\* a mined block holds two transactions of one sender, each within the
\* balance the sender had before the block and together above it, and the
\* sender's balance is now negative
DoubleSpendWitness ==
  /\ Mined
  /\ LET block == LastBlock(chain)
         txs == block.transactions
     IN  \E i, j \in 1..(Len(txs) - 1) :
           LET s == txs[i].from
               before == get_balance(wallets, s) - Replay(<<block>>, s, 1)
           IN  /\ i < j
               /\ s # SYSTEM_ACCOUNT
               /\ txs[j].from = s
               /\ txs[i].amount > 0 /\ txs[i].amount <= before
               /\ txs[j].amount > 0 /\ txs[j].amount <= before
               /\ txs[i].amount + txs[j].amount > before
               /\ get_balance(wallets, s) < 0

\* C15: no call aborts the process: mine_pending_transactions always finds a
\* last block to unwrap, and get_balance of an account that is not in the
\* table returns zero.
NoFatalOperation ==
  /\ last.op # "panic"
  /\ (last.op = "get_balance" /\ last.addr \notin DOMAIN wallets) => last.val = 0

\* get_balance was called for an unknown account after a block was mined
NoFatalOperationWitness ==
  /\ last.op = "get_balance"
  /\ last.addr \notin DOMAIN wallets
  /\ Len(chain) >= 2

\* C16: the search of Block::mine, once started, ends; the block it returns
\* has a hash that meets the difficulty and is the block Block::new returns;
\* every iteration changes only nonce and hash.
MiningTerminates ==
  /\ (search.pc = "loop") ~> (search.pc = "done")
  /\ [](search.pc = "done" =>
          /\ starts_with(search.block.hash, Target)
          /\ search.block.hash = calculate_hash(search.block)
          /\ search.block
               = BlockNew(search.block.index, search.block.transactions,
                          search.block.previous_hash, search.block.timestamp))
  /\ [][(search.pc = "loop" /\ search'.pc = "loop") =>
          /\ FixedFields(search'.block) = FixedFields(search.block)
          /\ search'.block.nonce = search.block.nonce + 1]_vars

\* a search that took more than one iteration has returned
MiningTerminatesWitness ==
  /\ search.pc = "done"
  /\ search.block.nonce >= 2
  /\ search.block.transactions # <<>>

RECURSIVE Pow2(_)
Pow2(n) == IF n = 0 THEN 1 ELSE 2 * Pow2(n - 1)

\* the reward the claimed schedule gives at chain length or block index n
ScheduledReward(n) == MINING_REWARD \div Pow2(n \div HALVING_INTERVAL)

\* C17: in every state the reward is MINING_REWARD / 2^floor(len(chain) /
\* HALVING_INTERVAL); only mining changes it, it is halved exactly when the
\* chain length becomes a multiple of HALVING_INTERVAL, and it never grows;
\* the coinbase of the block with index i >= 1 is MINING_REWARD /
\* 2^floor(i / HALVING_INTERVAL).
RewardSchedule ==
  /\ [](/\ current_mining_reward = ScheduledReward(Len(chain))
        /\ \A i \in 2..Len(chain) :
             Coinbase(chain[i]).amount = ScheduledReward(chain[i].index))
  /\ [][/\ current_mining_reward' <= current_mining_reward
        /\ current_mining_reward' # current_mining_reward =>
             last'.op = "mine_pending_transactions"
        /\ last'.op = "mine_pending_transactions" =>
             current_mining_reward'
               = IF Len(chain') % HALVING_INTERVAL = 0
                 THEN current_mining_reward \div 2
                 ELSE current_mining_reward]_vars

\* the reward has been halved twice and a block carries the twice-halved
\* coinbase
RewardScheduleWitness ==
  /\ Mined
  /\ Len(chain) > 2 * HALVING_INTERVAL + 1
  /\ current_mining_reward = MINING_REWARD \div 4
  /\ Coinbase(LastBlock(chain)).amount = MINING_REWARD \div 4

\* C18: is_chain_valid is true of the chain in every reachable state, and a
\* call of is_chain_valid or get_balance changes no part of the ledger.
AlwaysValid ==
  /\ [](/\ is_chain_valid(chain)
        /\ last.op = "is_chain_valid" => last.ret
        /\ last.op = "get_balance" => last.val = get_balance(wallets, last.addr))
  /\ [][last'.op \in {"is_chain_valid", "get_balance"} =>
          UNCHANGED <<chain, pending_transactions, wallets,
                      current_mining_reward>>]_vars

\* is_chain_valid has returned true on a chain with two mined blocks
AlwaysValidWitness ==
  /\ last.op = "is_chain_valid"
  /\ last.ret
  /\ Len(chain) >= 3

RECURSIVE Included(_, _)
\* the transactions of the blocks c[i ..] in chain order, without the last
\* transaction of each block
Included(c, i) ==
  IF i > Len(c) THEN <<>>
  ELSE SubSeq(c[i].transactions, 1, Len(c[i].transactions) - 1)
         \o Included(c, i + 1)

\* C19: the transactions add_transaction has accepted are, in admission
\* order, exactly the transactions of the mined blocks before each block's
\* last one, followed by the queue; the last transaction of every block with
\* index >= 1 is the coinbase transaction mining created; a mining call puts
\* the whole queue in its block and applies each transaction of it once.
ExactlyOnce ==
  /\ [](/\ admitted = Included(chain, 2) \o pending_transactions
        /\ \A i \in 2..Len(chain) :
             /\ chain[i].transactions # <<>>
             /\ Coinbase(chain[i]).from = SYSTEM_ACCOUNT)
  /\ [][last'.op = "mine_pending_transactions" =>
          /\ pending_transactions' = <<>>
          /\ Included(chain', Len(chain')) = pending_transactions
          /\ Coinbase(LastBlock(chain'))
               = Transaction(SYSTEM_ACCOUNT, last'.addr, current_mining_reward)
          /\ \A a \in Accounts :
               get_balance(wallets', a) - get_balance(wallets, a)
                 = SumTo(admitted, a, Len(Included(chain, 2)) + 1)
                     - (IF a # SYSTEM_ACCOUNT
                        THEN SumFrom(admitted, a, Len(Included(chain, 2)) + 1)
                        ELSE 0)
                     + (IF a = last'.addr THEN current_mining_reward ELSE 0)]_vars

\* two blocks have been mined, each from a queue that was not empty
ExactlyOnceWitness ==
  /\ Mined
  /\ Len(chain) = 3
  /\ Len(chain[2].transactions) >= 2
  /\ Len(chain[3].transactions) >= 2
  /\ Len(admitted) = 2

\* C20: a mining call never lowers the balance of an account that is not
\* the sender of a transaction of the mined block, whatever the amounts.
RecipientsNeverDebited ==
  [][last'.op = "mine_pending_transactions" =>
       LET txs == LastBlock(chain').transactions
       IN  \A a \in Accounts :
             (\A k \in 1..Len(txs) : txs[k].from # a) =>
               get_balance(wallets', a) >= get_balance(wallets, a)]_vars
====
